---- MODULE Spec2Model ----
(***************************************************************************)
(* State-machine model of the Smart Links browser plugin                   *)
(* (src/unnamed/part_000): the Google Picker script loader and picker      *)
(* config cache, the attachment MutationObserver with its debounced        *)
(* re-render, the FileUploader on_success wrapper and is_gdrive_url.       *)
(* Every handler of the source is one action; everything runs on the       *)
(* single UI thread, so a handler is atomic, and the promise reactions     *)
(* (microtasks) of a handler run inside the same action.                   *)
(***************************************************************************)
EXTENDS Integers, Sequences, FiniteSets, Bags, TLC

VARIABLES
    now,                      \* Date.now(), in milliseconds
    config,                   \* smart_links.config
    frmDoc,                   \* per form: docname, is_new, doc.smart_links
    reloading,                \* forms with a frm.reload_doc() under way
    picker_api_loaded,        \* smart_links.picker_api_loaded
    picker_api_loading,       \* smart_links.picker_api_loading
    pickerLoadPromise,        \* smart_links._pickerLoadPromise: 0, or the script it waits on
    scripts,                  \* the api.js script elements appended to document.head
    cbs,                      \* the callbacks given to load_picker_api, in call order
    picker_config_cached,     \* smart_links.picker_config_cached
    picker_config_timestamp,  \* smart_links.picker_config_timestamp (0: null/undefined)
    net,                      \* bag of frappe.call requests whose response is outstanding
    pickers,                  \* forms with a visible Google Picker
    lastPicker,               \* what the last create_picker was given
    opened,                   \* number of pickers built
    authFail,                 \* bookkeeping of the last AuthenticationError
    dom,                      \* per form: its sidebar and the children of .form-attachments
    observers,                \* per form: connected MutationObservers on its attachments section
    attachmentObserver,       \* smart_links._attachmentObserver: the form it was made for
    timers,                   \* pending setTimeout re-render timers
    reRenderTimeout,          \* smart_links._reRenderTimeout: the timer it names
    lastRendered,             \* form whose chips add_integrated_chips rendered last
    burst,                    \* bookkeeping of the current burst of qualifying mutations
    cur_frm,                  \* Frappe's global cur_frm ("none": not set)
    upload_intercepted,       \* smart_links.upload_intercepted
    uploaderWrappers,         \* wrapper classes stacked on frappe.ui.FileUploader
    converting,               \* bag of convert_file_to_smart_link calls awaiting their response
    lastUpload,               \* the upload whose on_success wrapper or conversion response ran last
    urlArg,                   \* the value is_gdrive_url was last applied to
    urlResult,                \* what it returned ("unset" before the first call)
    session_user,             \* frappe.session.user ("none": no session or no user)
    config_loaded,            \* smart_links.loaded
    registered_doctypes,      \* doctypes d with smart_links.registered_doctypes[d] = true
    formOn,                   \* per doctype: frappe.ui.form.on calls of register_doctype_handler
    configCalls,              \* bag of load_config's get_config requests awaiting their response
    loadLog,                  \* bookkeeping: load_config calls made, callbacks invoked
    lastRefresh,              \* bookkeeping: the last form refresh or check_current_form
    server,                   \* per form: the link records of its document at the server
    linkCalls,                \* add_link / remove_link / refresh_file_names requests awaiting their response
    removed                   \* bookkeeping: links removed with the remove button

pickerVars ==
    << picker_api_loaded, picker_api_loading, pickerLoadPromise, scripts, cbs,
       picker_config_cached, picker_config_timestamp, net,
       pickers, lastPicker, opened, authFail >>

obsVars ==
    << dom, observers, attachmentObserver, timers, reRenderTimeout,
       lastRendered, burst, linkCalls >>

uploadVars ==
    << cur_frm, upload_intercepted, uploaderWrappers, converting, lastUpload,
       urlArg, urlResult >>

cfgVars ==
    << session_user, config_loaded, registered_doctypes, formOn, configCalls, loadLog,
       lastRefresh >>

linkVars == << server, removed >>

vars ==
    << now, config, frmDoc, reloading, pickerVars, obsVars, uploadVars, cfgVars,
       linkVars >>

(***************************************************************************)
(* Bounds                                                                  *)
(***************************************************************************)
MaxCalls == 3
\* number of load_picker_api calls in the loader model

MaxPickerCalls == 2
\* number of load_picker_api calls in the picker cache model

MaxPickerTicks == 3
\* clock steps of the picker model

MaxObsTicks == 5
\* clock steps of the observer model

MaxLocal == 1
\* local (non Google Drive) attachment rows Frappe renders

MaxUploads == 2
\* conversions of intercepted uploads that are outstanding at once

MaxLinkCalls == 2
\* add_link, remove_link and refresh_file_names requests outstanding at once

MaxLoads == 2
\* load_config calls, and check_current_form runs on a page change

(***************************************************************************)
(* Values                                                                  *)
(***************************************************************************)
Forms == {"f1", "f2"}

Doctype(f) == IF f = "f1" THEN "Task" ELSE "Note"

StartTime == 10 * 60 * 1000
\* Date.now() when the page loads (any positive instant)

PickerTick == 25 * 60 * 1000
\* the picker model's clock advances 25 minutes at a time

cacheMaxAge == 50 * 60 * 1000

NoPickerConfig == [isnull |-> TRUE, old |-> FALSE]
\* picker_config_cached = null

NoConfig ==
    [isnull |-> TRUE, enabled |-> FALSE, is_connected |-> FALSE,
     enabled_doctypes |-> << >>]

Configs ==
    { NoConfig,
      [isnull |-> FALSE, enabled |-> TRUE, is_connected |-> TRUE,
       enabled_doctypes |-> << "Task" >>],
      [isnull |-> FALSE, enabled |-> TRUE, is_connected |-> FALSE,
       enabled_doctypes |-> << "Task", "Note" >>] }

\* Array.prototype.includes
Includes(arr, x) == \E i \in DOMAIN arr : arr[i] = x

\* String.prototype.startsWith('new-')
StartsWithNew(s) == Len(s) >= 4 /\ SubSeq(s, 1, 4) = "new-"

(***************************************************************************)
(* The picker state a handler reads and writes, as one record, so that a   *)
(* handler's nested calls compose.                                         *)
(***************************************************************************)
PS ==
    [loaded |-> picker_api_loaded, loading |-> picker_api_loading,
     promise |-> pickerLoadPromise, scripts |-> scripts, cbs |-> cbs,
     cache |-> picker_config_cached, ts |-> picker_config_timestamp,
     net |-> net, pickers |-> pickers,
     lastPicker |-> lastPicker, opened |-> opened, reloading |-> reloading]

SetPS(st) ==
    /\ picker_api_loaded' = st.loaded
    /\ picker_api_loading' = st.loading
    /\ pickerLoadPromise' = st.promise
    /\ scripts' = st.scripts
    /\ cbs' = st.cbs
    /\ picker_config_cached' = st.cache
    /\ picker_config_timestamp' = st.ts
    /\ net' = st.net
    /\ pickers' = st.pickers
    /\ lastPicker' = st.lastPicker
    /\ opened' = st.opened
    /\ reloading' = st.reloading

\* JavaScript values: strings, numbers, null and undefined
Str(s) == [type |-> "string", str |-> s, num |-> 0]

Num(n) == [type |-> "number", str |-> "", num |-> n]

\* true and false, as 1 and 0
Bool(n) == [type |-> "boolean", str |-> "", num |-> n]

\* some object, e.g. {}
Object == [type |-> "object", str |-> "", num |-> 0]

Null == [type |-> "null", str |-> "", num |-> 0]

Undefined == [type |-> "undefined", str |-> "", num |-> 0]

\* !v
Falsy(v) ==
    \/ v.type \in {"null", "undefined"}
    \/ v.type = "string" /\ v.str = ""
    \/ v.type \in {"number", "boolean"} /\ v.num = 0

\* v || d
JsOr(v, d) == IF Falsy(v) THEN d ELSE v

\* A request in flight. old: the server answered it before the most recent
\* AuthenticationError reached the client.
Msg(kind, frm) == [kind |-> kind, frm |-> frm, old |-> FALSE]

\* frappe.call: one request goes out; its response is delivered later.
frappe_call(st, kind, frm) ==
    [st EXCEPT !.net = @ (+) SetToBag({Msg(kind, frm)})]

\* the response of m has been delivered
Delivered(st, m) == [st EXCEPT !.net = @ (-) SetToBag({m})]

\* r.message of a get_picker_config response
Message(m) == [isnull |-> FALSE, old |-> m.old]

\* create_picker(frm, config): config.app_id of a null config throws inside the
\* try block and no picker is built.
create_picker(st, frm, cfg, src) ==
    IF cfg = NoPickerConfig
    THEN st
    ELSE [st EXCEPT !.pickers = @ \cup {frm},
                    !.opened = @ + 1,
                    !.lastPicker =
                        [src |-> src, old |-> cfg.old,
                         age |-> IF src = "cached" THEN now - st.ts ELSE 0]]

\* cacheValid of show_file_browser
CacheValid(cache, ts, t) ==
    /\ cache # NoPickerConfig
    /\ ts # 0
    /\ (t - ts) < cacheMaxAge

\* The function show_file_browser passes to load_picker_api; cacheValid is the
\* constant captured when show_file_browser ran.
show_callback(st, cb) ==
    IF cb.cacheValid
    THEN create_picker(st, cb.frm, st.cache, "cached")
    ELSE frappe_call(st, "fetch_cfg", cb.frm)

\* callback(): callback i of cbs runs
invoke(st, i) ==
    LET cb == st.cbs[i]
        st1 == [st EXCEPT !.cbs[i].invoked = @ + 1]
    IN  IF cb.kind = "show" THEN show_callback(st1, cb) ELSE st1

RECURSIVE InvokeAll(_, _)
InvokeAll(st, idxs) ==
    IF idxs = << >> THEN st
    ELSE InvokeAll(invoke(st, Head(idxs)), Tail(idxs))

\* load_picker_api without the "already loading" branch
LoadBranch_NoWait(loaded, loading, promise) ==
    IF loaded THEN "immediate" ELSE "start"

\* The branch load_picker_api takes
LoadBranch(loaded, loading, promise) ==
    IF loaded THEN "immediate"
    ELSE IF loading /\ promise # 0 THEN "wait"
    ELSE "start"

NewCb(kind, frm, cacheValid, load, role) ==
    [kind |-> kind, frm |-> frm, cacheValid |-> cacheValid, load |-> load,
     role |-> role, invoked |-> 0]

\* smart_links.load_picker_api(callback)
load_picker_api(st, kind, frm, cacheValid) ==
    LET branch == LoadBranch(st.loaded, st.loading, st.promise)
        n == Len(st.cbs) + 1
    IN  CASE branch = "immediate" ->
               invoke([st EXCEPT !.cbs =
                           Append(@, NewCb(kind, frm, cacheValid, 0, "immediate"))],
                      n)
          [] branch = "wait" ->
               [st EXCEPT !.cbs =
                    Append(@, NewCb(kind, frm, cacheValid, st.promise, "waiter"))]
          [] OTHER ->
               [st EXCEPT !.loading = TRUE,
                          !.scripts = Append(@, "fetching"),
                          !.promise = Len(st.scripts) + 1,
                          !.cbs = Append(@, NewCb(kind, frm, cacheValid,
                                                  Len(st.scripts) + 1, "starter"))]

(***************************************************************************)
(* Picker: the handlers                                                    *)
(***************************************************************************)
NoAuthFail == [failed |-> FALSE, first |-> "none"]

\* The early returns of show_file_browser (lines 1170-1184)
ShowGuardsPass(f) ==
    /\ frmDoc[f].docname # ""
    /\ ~frmDoc[f].is_new
    /\ ~StartsWithNew(frmDoc[f].docname)
    /\ ~config.isnull
    /\ config.is_connected

\* smart_links.preload_picker_api(), called by check_current_form on a form of
\* an enabled doctype when config.is_connected
preload_picker_api ==
    /\ ~config.isnull /\ config.enabled /\ config.is_connected
    /\ SetPS(frappe_call(load_picker_api(PS, "preload", "-", FALSE), "preload_cfg", "-"))
    /\ UNCHANGED << now, config, frmDoc, authFail, obsVars, uploadVars,
                    cfgVars, linkVars >>

\* callback of preload_picker_api's get_picker_config call
preload_response(m, hasMessage) ==
    /\ m \in BagToSet(net) /\ m.kind = "preload_cfg"
    /\ SetPS(IF hasMessage
             THEN [Delivered(PS, m) EXCEPT !.cache = Message(m), !.ts = now]
             ELSE Delivered(PS, m))
    /\ UNCHANGED << now, config, frmDoc, authFail, obsVars, uploadVars,
                    cfgVars, linkVars >>

\* script.onload: gapi.load('picker', ...) starts
script_onload(l) ==
    /\ l \in DOMAIN scripts /\ scripts[l] = "fetching"
    /\ scripts' = [scripts EXCEPT ![l] = "gapi"]
    /\ UNCHANGED << now, config, frmDoc, reloading, picker_api_loaded,
                    picker_api_loading, pickerLoadPromise, cbs,
                    picker_config_cached, picker_config_timestamp, net,
                    pickers, lastPicker, opened, authFail, obsVars, uploadVars,
                    cfgVars, linkVars >>

\* A resolution that runs the starting call's callback only
Reactions_StarterOnly(cs, l) ==
    LET RECURSIVE go(_)
        go(i) == IF i > Len(cs) THEN << >>
                 ELSE (IF cs[i].load = l /\ cs[i].role = "starter"
                       THEN << i >> ELSE << >>) \o go(i + 1)
    IN  go(1)

\* The callbacks that run when script l's promise resolves: the one of the call
\* that started the load (called in the gapi.load callback), then the .then
\* reactions of the calls that waited, in registration order.
Reactions(cs, l) ==
    LET pick(role) ==
            LET RECURSIVE go(_)
                go(i) == IF i > Len(cs) THEN << >>
                         ELSE (IF cs[i].load = l /\ cs[i].role = role
                               THEN << i >> ELSE << >>) \o go(i + 1)
            IN  go(1)
    IN  pick("starter") \o pick("waiter")

\* the gapi.load('picker', ...) callback of script l
gapi_loaded(l) ==
    /\ l \in DOMAIN scripts /\ scripts[l] = "gapi"
    /\ SetPS(InvokeAll([PS EXCEPT !.loaded = TRUE, !.loading = FALSE,
                                  !.scripts[l] = "resolved"],
                       Reactions(cbs, l)))
    /\ UNCHANGED << now, config, frmDoc, authFail, obsVars, uploadVars,
                    cfgVars, linkVars >>

\* an onerror that forgets the flag
OnerrorLoading_Stuck(loading) == loading

\* what script.onerror leaves in picker_api_loading
OnerrorLoading(loading) == FALSE

\* script.onerror of script l: the promise is rejected, the waiters' .catch
\* reactions do nothing
script_onerror(l) ==
    /\ l \in DOMAIN scripts /\ scripts[l] = "fetching"
    /\ scripts' = [scripts EXCEPT ![l] = "rejected"]
    /\ picker_api_loading' = OnerrorLoading(picker_api_loading)
    /\ UNCHANGED << now, config, frmDoc, reloading, picker_api_loaded,
                    pickerLoadPromise, cbs, picker_config_cached,
                    picker_config_timestamp, net, pickers,
                    lastPicker, opened, authFail, obsVars, uploadVars,
                    cfgVars, linkVars >>

\* show_file_browser takes its "open immediately" branch
OpensImmediately ==
    /\ picker_api_loaded
    /\ CacheValid(picker_config_cached, picker_config_timestamp, now)

\* smart_links.show_file_browser(frm)
show_file_browser(f) ==
    /\ ShowGuardsPass(f)
    /\ LET cacheValid == CacheValid(picker_config_cached, picker_config_timestamp, now)
       IN  /\ SetPS(IF OpensImmediately
                    THEN create_picker(PS, f, picker_config_cached, "cached")
                    ELSE load_picker_api(PS, "show", f, cacheValid))
           /\ authFail' =
                IF authFail.failed /\ authFail.first = "none"
                THEN [authFail EXCEPT
                        !.first = IF ~cacheValid THEN "fetch"
                                  ELSE IF picker_config_cached.old THEN "old_cached"
                                  ELSE "cached"]
                ELSE authFail
    /\ UNCHANGED << now, config, frmDoc, obsVars, uploadVars,
                    cfgVars, linkVars >>

\* callback / error of show_file_browser's get_picker_config call
fetch_response(m, outcome) ==
    /\ m \in BagToSet(net) /\ m.kind = "fetch_cfg"
    /\ SetPS(IF outcome = "message"
             THEN create_picker([Delivered(PS, m) EXCEPT !.cache = Message(m),
                                                         !.ts = now],
                                m.frm, Message(m), "fresh")
             ELSE Delivered(PS, m))
    /\ UNCHANGED << now, config, frmDoc, authFail, obsVars, uploadVars,
                    cfgVars, linkVars >>

\* smart_links.picker_callback(frm, data): PICKED with files, or CANCEL / no files
picker_callback(f, picked) ==
    /\ f \in pickers
    /\ SetPS(IF picked
             THEN frappe_call([PS EXCEPT !.pickers = @ \ {f}], "batch", f)
             ELSE [PS EXCEPT !.pickers = @ \ {f}])
    /\ UNCHANGED << now, config, frmDoc, authFail, obsVars, uploadVars,
                    cfgVars, linkVars >>

\* The error handler of add_links_batch on an AuthenticationError
AuthErrorHandler(st) == [st EXCEPT !.cache = NoPickerConfig, !.ts = 0]

\* Every response still in flight was issued before this failure
MarkOld(st) ==
    LET ms == BagToSet(st.net)
        aged(m) == [m EXCEPT !.old = TRUE]
    IN  [st EXCEPT !.net =
            [x \in {aged(m) : m \in ms} |->
                LET src == {m \in ms : aged(m) = x}
                    RECURSIVE sum(_)
                    sum(S) == IF S = {} THEN 0
                              ELSE LET m == CHOOSE y \in S : TRUE
                                   IN  st.net[m] + sum(S \ {m})
                IN  sum(src)]]

BatchOutcomes == {"linked", "nothing_linked", "empty", "auth_error", "other_error"}

\* callback / error of picker_callback's add_links_batch call
batch_response(m, outcome) ==
    /\ m \in BagToSet(net) /\ m.kind = "batch"
    /\ SetPS(CASE outcome = "linked" ->
                    [Delivered(PS, m) EXCEPT !.reloading = @ \cup {m.frm}]
               [] outcome = "auth_error" ->
                    AuthErrorHandler(MarkOld(Delivered(PS, m)))
               [] OTHER -> Delivered(PS, m))
    /\ authFail' =
         IF outcome = "auth_error"
         THEN [failed |-> TRUE, first |-> "none"]
         ELSE authFail
    /\ UNCHANGED << now, config, frmDoc, obsVars, uploadVars,
                    cfgVars, linkVars >>

\* Time passes
PickerTickStep ==
    /\ now < StartTime + MaxPickerTicks * PickerTick
    /\ now' = now + PickerTick
    /\ UNCHANGED << config, frmDoc, reloading, pickerVars, obsVars, uploadVars,
                    cfgVars, linkVars >>

InitPickerVars ==
    /\ picker_api_loaded = FALSE
    /\ picker_api_loading = FALSE
    /\ pickerLoadPromise = 0
    /\ scripts = << >>
    /\ cbs = << >>
    /\ picker_config_cached = NoPickerConfig
    /\ picker_config_timestamp = 0
    /\ net = EmptyBag
    /\ pickers = {}
    /\ lastPicker = [src |-> "none", old |-> FALSE, age |-> 0]
    /\ opened = 0
    /\ authFail = NoAuthFail

SavedDoc == [docname |-> "TASK-1", is_new |-> FALSE, smart_links |-> << >>]

NewDoc == [docname |-> "new-note-1", is_new |-> TRUE, smart_links |-> << >>]

NoTimer == [frm |-> "none", due |-> 0]

\* last: when the latest qualifying mutation of the burst under way happened
\* (0: no burst under way); several: the burst has mutations at different
\* times; outcome: how the previous burst ended.
NoBurst == [last |-> 0, several |-> FALSE, outcome |-> "none"]

FullSidebar == [sidebar |-> TRUE, section |-> TRUE, children |-> << "actions" >>]

\* a sidebar without a .form-attachments section
BareSidebar == [sidebar |-> TRUE, section |-> FALSE, children |-> << >>]

\* a .form-attachments section without .attachments-actions
PlainSection == [sidebar |-> TRUE, section |-> TRUE, children |-> << >>]

Layouts == {FullSidebar, BareSidebar, PlainSection}

InitObsVars ==
    /\ dom \in {d \in [Forms -> Layouts] : d["f1"] = FullSidebar}
    /\ observers = [f \in Forms |-> 0]
    /\ attachmentObserver = "none"
    /\ timers = {}
    /\ reRenderTimeout = NoTimer
    /\ lastRendered = "none"
    /\ burst = NoBurst

NoFileDoc == [isnull |-> TRUE, file_url |-> Undefined, name |-> ""]

NoArgs == [file_doc |-> NoFileDoc, response |-> ""]

\* An upload: what its on_success was given (file_doc, response, opts.doctype,
\* opts.docname, whether opts.on_success was supplied), what it was at that
\* moment (drive: the file URL is a Google Drive URL, doctypeEnabled: its
\* doctype is in enabled_doctypes, hasDocname), and what happened to it since
\* (convert: convert_file_to_smart_link calls issued, original: calls of the
\* caller's on_success, passed: the arguments of the last such call).
NoUpload ==
    [phase |-> "none", file_doc |-> NoFileDoc, response |-> "",
     doctype |-> "", docname |-> "", hasOriginal |-> FALSE,
     drive |-> FALSE, doctypeEnabled |-> FALSE, hasDocname |-> FALSE,
     convert |-> 0, original |-> 0, passed |-> NoArgs,
     reloaded |-> FALSE, frmAtResponse |-> "none"]

Doctypes == {"Task", "Note"}

NoRefresh ==
    [kind |-> "none", frm |-> "none", handlerRuns |-> 0, rendered |-> 0,
     wasLoaded |-> FALSE, wasEnabled |-> FALSE, isNew |-> FALSE,
     hasDocname |-> FALSE, doctypeEnabled |-> FALSE]

\* The state the page is in once load_config's callback has run for the
\* configuration (for no configuration: the load has not come back); the
\* document held by each form is the server's.
InitLoaded ==
    /\ config_loaded = ~config.isnull
    /\ registered_doctypes =
          IF ~config.isnull /\ config.enabled
          THEN {d \in Doctypes : Includes(config.enabled_doctypes, d)} ELSE {}
    /\ formOn = [d \in Doctypes |->
                    IF ~config.isnull /\ config.enabled
                       /\ Includes(config.enabled_doctypes, d) THEN 1 ELSE 0]
    /\ loadLog = [calls |-> 0, callbacks |-> 0]
    /\ lastRefresh = NoRefresh
    /\ server = [f \in Forms |-> frmDoc[f].smart_links]
    /\ linkCalls = {}
    /\ removed = {}

\* the state load_config's callback leaves; no upload yet
InitUploadVars ==
    /\ cur_frm = "none"
    /\ upload_intercepted = ~config.isnull
    /\ uploaderWrappers = IF config.isnull THEN 0 ELSE 1
    /\ converting = EmptyBag
    /\ lastUpload = NoUpload
    /\ urlArg = Undefined
    /\ urlResult = "unset"

InitPicker ==
    /\ now = StartTime
    /\ config \in {c \in Configs : c.isnull \/ c.is_connected}
    /\ frmDoc = [f \in Forms |-> IF f = "f1" THEN SavedDoc ELSE NewDoc]
    /\ reloading = {}
    /\ InitPickerVars
    /\ InitObsVars
    /\ InitUploadVars
    /\ InitLoaded
    /\ session_user = "alice"
    /\ configCalls = EmptyBag

(***************************************************************************)
(* The attachments section of a form sidebar and its MutationObserver      *)
(***************************************************************************)
FileIds == {"g1", "g2"}

\* values of frm.doc.smart_links, each link named by its file_id
LinkLists == {<< >>, << "g1", "g2" >>}

debounce == 150

ObsTick == 50
\* the observer model's clock advances at most 50 ms at a time

\* .gdrive-attachment-row
IsGdriveRow(e) == e \in FileIds

\* .gdrive-separator
IsSeparator(e) == e = "sep"

\* .attachment-row:not(.gdrive-attachment-row)
IsLocalRow(e) == e = "local"

\* .attachment-row (the rows of create_attachment_row carry this class too)
IsAttachmentRow(e) == IsLocalRow(e) \/ IsGdriveRow(e)

IsOurs(e) == IsGdriveRow(e) \/ IsSeparator(e)

\* a render that leaves its earlier rows and separator in place
NotOurs_KeepAll(e) == TRUE

\* the elements that stay when the gdrive rows and separators are removed
NotOurs(e) == ~IsOurs(e)

NotAttachmentRow(e) == ~IsAttachmentRow(e)

\* jQuery find(...).length
Count(seq, P(_)) == Len(SelectSeq(seq, P))

\* index of the last element matching P, 0 when there is none
LastIndex(seq, P(_)) ==
    LET hits == {i \in DOMAIN seq : P(seq[i])}
    IN  IF hits = {} THEN 0 ELSE CHOOSE i \in hits : \A j \in hits : j <= i

IsActions(e) == e = "actions"

\* insertPoint.after(...) repeated: elems end up, in order, behind position pos
InsertAfter(seq, pos, elems) ==
    SubSeq(seq, 1, pos) \o elems \o SubSeq(seq, pos + 1, Len(seq))

OS ==
    [dom |-> dom, observers |-> observers, ref |-> attachmentObserver,
     timers |-> timers, tref |-> reRenderTimeout, lastRendered |-> lastRendered,
     burst |-> burst, calls |-> linkCalls,
     links |-> [f \in Forms |-> frmDoc[f].smart_links]]

SetOS(st) ==
    /\ dom' = st.dom
    /\ observers' = st.observers
    /\ attachmentObserver' = st.ref
    /\ timers' = st.timers
    /\ reRenderTimeout' = st.tref
    /\ lastRendered' = st.lastRendered
    /\ burst' = st.burst
    /\ linkCalls' = st.calls

\* The gdrive rows of form f leave the document: a remove handler that still
\* holds one of them holds a detached element from now on.
Detach(calls, f) ==
    {IF c.kind = "remove" /\ c.frm = f THEN [c EXCEPT !.detached = TRUE] ELSE c :
        c \in calls}

\* a setup that leaves the previous observer connected
DisconnectExisting_Skip(obs, ref) == obs

\* smart_links._attachmentObserver.disconnect()
DisconnectExisting(obs, ref) ==
    IF ref # "none" /\ obs[ref] > 0 THEN [obs EXCEPT ![ref] = @ - 1] ELSE obs

\* a clearTimeout that is left out
ClearTimeout_Skip(ts, ref) == ts

\* clearTimeout(smart_links._reRenderTimeout)
ClearTimeout(ts, ref) == ts \ {ref}

\* smart_links.setup_attachment_observer(frm, attachmentsSection)
setup_attachment_observer(st, f) ==
    [st EXCEPT !.observers = [DisconnectExisting(@, st.ref) EXCEPT ![f] = @ + 1],
               !.timers = ClearTimeout(@, st.tref),
               !.ref = f,
               !.lastRendered = f,
               !.burst = IF @.last = 0 THEN @
                         ELSE [last |-> 0, several |-> FALSE, outcome |-> "cancelled"]]

\* the two conditions under which the observer callback schedules a re-render
Qualifies(st, f) ==
    LET links == st.links[f]
        ch == st.dom[f].children
        shouldHaveElements == Len(links) > 0
        gdriveElementsExist == Count(ch, IsGdriveRow) > 0
        localAttachmentCount == Count(ch, IsLocalRow)
        hasSeparator == Count(ch, IsSeparator) > 0
        shouldHaveSeparator == localAttachmentCount > 0 /\ Len(links) > 0
    IN  /\ ~config.isnull /\ config.enabled
        /\ \/ shouldHaveElements /\ ~gdriveElementsExist
           \/ shouldHaveSeparator # hasSeparator

\* clearTimeout(...); smart_links._reRenderTimeout = setTimeout(..., 150)
Schedule(st, f) ==
    LET t == [frm |-> f, due |-> now + debounce]
    IN  [st EXCEPT !.timers = ClearTimeout(@, st.tref) \cup {t},
                   !.tref = t,
                   !.burst = IF @.last = 0
                             THEN [@ EXCEPT !.last = now, !.several = FALSE]
                             ELSE [@ EXCEPT !.last = now,
                                            !.several = @ \/ st.burst.last # now]]

\* the MutationObserver callback of the observer made for form f
observer_callback(st, f) ==
    IF Qualifies(st, f) THEN Schedule(st, f) ELSE st

\* smart_links.add_integrated_chips(frm)
add_integrated_chips(st, f) ==
    LET d == st.dom[f]
        cleaned == SelectSeq(d.children, NotOurs)
        links == st.links[f]
        hasLocalAttachments == Count(cleaned, IsLocalRow) > 0
        insertPoint == IF hasLocalAttachments
                       THEN LastIndex(cleaned, IsLocalRow)
                       ELSE LastIndex(cleaned, IsActions)
        inserted == IF hasLocalAttachments THEN << "sep" >> \o links ELSE links
        rendered == IF insertPoint = 0 THEN cleaned
                    ELSE InsertAfter(cleaned, insertPoint, inserted)
    IN  IF ~d.sidebar \/ ~d.section THEN st
        ELSE IF Len(links) = 0
        THEN setup_attachment_observer([st EXCEPT !.dom[f].children = cleaned,
                                                  !.calls = Detach(@, f)], f)
        ELSE setup_attachment_observer([st EXCEPT !.dom[f].children = rendered,
                                                  !.calls = Detach(@, f)], f)

\* add_integrated_chips as a task: the mutation records of its own DOM changes
\* reach the observers of the section that are still connected when it ends
\* (disconnect() drops the records queued for the observer it disconnects).
Render(st, f) ==
    LET st2 == add_integrated_chips(st, f)
        ranSetup == st.dom[f].sidebar /\ st.dom[f].section
        mutated == \/ Count(st.dom[f].children, IsOurs) > 0
                   \/ Count(st2.dom[f].children, IsOurs) > 0
        earlier == st2.observers[f] - (IF ranSetup THEN 1 ELSE 0)
    IN  IF mutated /\ earlier > 0 THEN observer_callback(st2, f) ELSE st2

\* register_doctype_handler has given frappe.ui.form.on a refresh handler for
\* the doctype of form f
HandlerRegistered(f) == formOn[Doctype(f)] > 0

\* an on_form_refresh that renders for new documents too
RefreshGuards_NewToo(f, cfg, isLoaded) ==
    /\ Doctype(f) # ""
    /\ frmDoc[f].docname # ""
    /\ isLoaded /\ ~cfg.isnull /\ cfg.enabled

\* the early returns of on_form_refresh, for the configuration cfg
RefreshGuards(f, cfg, isLoaded) ==
    /\ Doctype(f) # ""
    /\ ~frmDoc[f].is_new
    /\ frmDoc[f].docname # ""
    /\ isLoaded /\ ~cfg.isnull /\ cfg.enabled

\* the early returns of on_form_refresh, for the configuration in force
RefreshGuardsPass(f) == RefreshGuards(f, config, config_loaded)

\* smart_links.on_form_refresh(frm)
on_form_refresh(f) ==
    /\ HandlerRegistered(f)
    /\ RefreshGuardsPass(f)
    /\ SetOS(Render(OS, f))
    /\ UNCHANGED << now, config, frmDoc, reloading, pickerVars, uploadVars,
                    cfgVars, linkVars >>

\* bookkeeping: timer t fires 150 ms after the latest qualifying mutation of
\* the burst under way ("fired"), or not ("stray")
FireOutcome(t) ==
    IF burst.last # 0 /\ t.due = burst.last + debounce /\ now = t.due
    THEN "fired" ELSE "stray"

\* the re-render timer t fires
timer_fire(t) ==
    /\ t \in timers
    /\ t.due <= now
    /\ SetOS(Render([OS EXCEPT !.timers = @ \ {t},
                               !.burst = [last |-> 0, several |-> @.several,
                                          outcome |-> FireOutcome(t)]],
                    t.frm))
    /\ UNCHANGED << now, config, frmDoc, reloading, pickerVars, uploadVars,
                    cfgVars, linkVars >>

\* Frappe renders the attachments of form f: every .attachment-row is removed
\* and n rows of local files are put behind .attachments-actions; the
\* observers of the section get the mutation records.
frappe_render_attachments(f, n) ==
    /\ dom[f].section
    /\ Count(dom[f].children, IsAttachmentRow) > 0 \/ n > 0
    /\ LET kept == SelectSeq(dom[f].children, NotAttachmentRow)
           after == InsertAfter(kept, LastIndex(kept, IsActions),
                                [i \in 1..n |-> "local"])
           st1 == [OS EXCEPT !.dom[f].children = after, !.calls = Detach(@, f)]
       IN  SetOS(IF observers[f] > 0 THEN observer_callback(st1, f) ELSE st1)
    /\ UNCHANGED << now, config, frmDoc, reloading, pickerVars, uploadVars,
                    cfgVars, linkVars >>

\* Frappe puts another document state into frm.doc
doc_loaded(f, links) ==
    /\ frmDoc[f].smart_links # links
    /\ frmDoc' = [frmDoc EXCEPT ![f].smart_links = links]
    /\ server' = [server EXCEPT ![f] = links]
    /\ UNCHANGED << now, config, reloading, pickerVars, obsVars, uploadVars,
                    cfgVars, removed >>

\* Time passes, up to the next timer that is due
ObsTickStep ==
    /\ now < StartTime + MaxObsTicks * ObsTick
    /\ \A t \in timers : t.due > now
    /\ LET next == now + ObsTick
           dues == {t.due : t \in timers}
       IN  now' = IF \E d \in dues : d < next
                  THEN CHOOSE d \in dues : \A e \in dues : d <= e
                  ELSE next
    /\ UNCHANGED << config, frmDoc, reloading, pickerVars, obsVars, uploadVars,
                    cfgVars, linkVars >>

InitObserver ==
    /\ now = StartTime
    /\ config \in {c \in Configs : ~c.isnull /\ Includes(c.enabled_doctypes, "Note")}
    /\ frmDoc = [f \in Forms |->
                    [docname |-> IF f = "f1" THEN "TASK-1" ELSE "NOTE-1",
                     is_new |-> FALSE, smart_links |-> << >>]]
    /\ reloading = {}
    /\ InitPickerVars
    /\ InitObsVars
    /\ InitUploadVars
    /\ InitLoaded
    /\ session_user = "alice"
    /\ configCalls = EmptyBag

NextObserver ==
    \/ \E f \in Forms : on_form_refresh(f)
    \/ \E t \in timers : timer_fire(t)
    \/ \E f \in Forms, n \in 0..MaxLocal : frappe_render_attachments(f, n)
    \/ \E f \in Forms, links \in LinkLists : doc_loaded(f, links)
    \/ ObsTickStep

SpecObserver == InitObserver /\ [][NextObserver]_vars

(***************************************************************************)
(* is_gdrive_url and the regular expression it tests                       *)
(***************************************************************************)
\* A regular expression without quantifiers: a set of alternatives, each a
\* sequence of tokens; a token matches one given character or any character.
Chars(s) == [i \in 1..Len(s) |-> [any |-> FALSE, ch |-> SubSeq(s, i, i)]]

\* the token of an escaped dot: a literal "."
EscapedDot == << [any |-> FALSE, ch |-> "."] >>

\* the token of an unescaped dot
AnyChar == << [any |-> TRUE, ch |-> ""] >>

GdriveRegex_UnescapedDots ==
    { Chars("drive") \o AnyChar \o Chars("google") \o AnyChar \o Chars("com"),
      Chars("docs") \o AnyChar \o Chars("google") \o AnyChar \o Chars("com") }

\* /drive\.google\.com|docs\.google\.com/
GdriveRegex ==
    { Chars("drive") \o EscapedDot \o Chars("google") \o EscapedDot \o Chars("com"),
      Chars("docs") \o EscapedDot \o Chars("google") \o EscapedDot \o Chars("com") }

\* the alternative alt matches s at position i
MatchesAt(alt, s, i) ==
    /\ i + Len(alt) - 1 <= Len(s)
    /\ \A k \in 1..Len(alt) :
          alt[k].any \/ alt[k].ch = SubSeq(s, i + k - 1, i + k - 1)

\* RegExp.prototype.test of an unanchored expression without flags
RegexTest(re, s) == \E alt \in re : \E i \in 1..Len(s) : MatchesAt(alt, s, i)

\* smart_links.is_gdrive_url(url)
is_gdrive_url(url) ==
    IF Falsy(url) \/ url.type # "string" THEN FALSE
    ELSE RegexTest(GdriveRegex, url.str)

UrlPrefixes == {"", "https://", "x"}

UrlCores ==
    {"drive.google.com", "docs.google.com", "driveXgoogle.com",
     "docs.google,com", "Drive.Google.com", "drive.google.co", "docs.google",
     "ocs.google.com", "example.com", ""}

UrlSuffixes == {"", "/file/d/1", "?u=docs.google.com"}

\* the values is_gdrive_url is applied to
JsValues ==
    {Str(p \o c \o q) : p \in UrlPrefixes, c \in UrlCores, q \in UrlSuffixes}
        \cup {Null, Undefined, Num(0), Num(7), Bool(0), Bool(1), Object}

BoolText(b) == IF b THEN "true" ELSE "false"

\* a call smart_links.is_gdrive_url(urlArg)
is_gdrive_url_call ==
    /\ urlResult = "unset"
    /\ urlResult' = BoolText(is_gdrive_url(urlArg))
    /\ UNCHANGED << now, config, frmDoc, reloading, pickerVars, obsVars,
                    cur_frm, upload_intercepted, uploaderWrappers, converting,
                    lastUpload, urlArg, cfgVars, linkVars >>

InitUrl ==
    /\ now = StartTime
    /\ config = NoConfig
    /\ frmDoc = [f \in Forms |-> IF f = "f1" THEN SavedDoc ELSE NewDoc]
    /\ reloading = {}
    /\ InitPickerVars
    /\ dom = [f \in Forms |-> FullSidebar]
    /\ observers = [f \in Forms |-> 0]
    /\ attachmentObserver = "none"
    /\ timers = {}
    /\ reRenderTimeout = NoTimer
    /\ lastRendered = "none"
    /\ burst = NoBurst
    /\ cur_frm = "none"
    /\ upload_intercepted = FALSE
    /\ uploaderWrappers = 0
    /\ converting = EmptyBag
    /\ lastUpload = NoUpload
    /\ urlArg \in JsValues
    /\ urlResult = "unset"
    /\ InitLoaded
    /\ session_user = "alice"
    /\ configCalls = EmptyBag

NextUrl == is_gdrive_url_call

SpecUrl == InitUrl /\ [][NextUrl]_vars

(***************************************************************************)
(* The FileUploader wrapper of intercept_file_upload                       *)
(***************************************************************************)
FileUrls == {Str("drive.google.com/1"), Str("driveXgoogle.com/2"), Undefined}

\* the file_doc values on_success is given: null, or a File document
FileDocs ==
    {NoFileDoc} \cup {[isnull |-> FALSE, file_url |-> u, name |-> "F1"] : u \in FileUrls}

\* what an uploader's opts.doctype and opts.docname can be ("": not given)
OptsDoctypes == {"", "Task"}

OptsDocnames == {"", "TASK-9"}

\* opts.doctype || (cur_frm && cur_frm.doctype)
EffectiveDoctype(u, frm) ==
    IF u.doctype # "" THEN u.doctype
    ELSE IF frm = "none" THEN "" ELSE Doctype(frm)

\* opts.docname || (cur_frm && cur_frm.docname)
EffectiveDocname(u, frm) ==
    IF u.docname # "" THEN u.docname
    ELSE IF frm = "none" THEN "" ELSE frmDoc[frm].docname

InterceptCondition_AnyDoctype(doctype, docname, cfg) == doctype # "" /\ docname # ""

\* doctype && docname && smart_links.config?.enabled_doctypes?.includes(doctype)
InterceptCondition(doctype, docname, cfg) ==
    /\ doctype # ""
    /\ docname # ""
    /\ ~cfg.isnull
    /\ Includes(cfg.enabled_doctypes, doctype)

\* if (originalOnSuccess) originalOnSuccess(file_doc, response)
CallOriginal(u) ==
    IF u.hasOriginal
    THEN [u EXCEPT !.original = @ + 1,
                   !.passed = [file_doc |-> u.file_doc, response |-> u.response]]
    ELSE u

\* The on_success of an uploader built with depth wrapper classes stacked on
\* the original FileUploader: each wrapper's on_success either issues the
\* conversion and returns, or calls the on_success it replaced; below the
\* last wrapper is the on_success the caller supplied. The state is the
\* upload and the bag of outstanding conversions.
RECURSIVE wrapped_on_success(_, _, _)
wrapped_on_success(depth, u, conv) ==
    IF depth = 0 THEN [up |-> CallOriginal(u), converting |-> conv]
    ELSE IF /\ is_gdrive_url(JsOr(u.file_doc.file_url, Str("")))
            /\ InterceptCondition(EffectiveDoctype(u, cur_frm),
                                  EffectiveDocname(u, cur_frm), config)
         THEN LET sent == [u EXCEPT !.convert = @ + 1, !.phase = "sent"]
              IN  [up |-> sent,
                   converting |-> conv (+) SetToBag({[up |-> sent, depth |-> depth]})]
         ELSE wrapped_on_success(depth - 1, u, conv)

\* the string s contains the string sub
Contains(s, sub) ==
    \E i \in 1..(Len(s) - Len(sub) + 1) : SubSeq(s, i, i + Len(sub) - 1) = sub

\* v is a non-empty string containing one of the two Google host names
IsDriveUrlText(v) ==
    /\ v.type = "string"
    /\ v.str # ""
    /\ Contains(v.str, "drive.google.com") \/ Contains(v.str, "docs.google.com")

\* A FileUploader calls the on_success of its opts
on_success(file_doc, response, doctype, docname, hasOriginal) ==
    /\ uploaderWrappers >= 1
    /\ BagCardinality(converting) < MaxUploads
    /\ LET given == [NoUpload EXCEPT
                        !.phase = "passed",
                        !.file_doc = file_doc, !.response = response,
                        !.doctype = doctype, !.docname = docname,
                        !.hasOriginal = hasOriginal]
           u == [given EXCEPT
                    !.drive = IsDriveUrlText(file_doc.file_url),
                    !.doctypeEnabled =
                        /\ ~config.isnull
                        /\ \E i \in DOMAIN config.enabled_doctypes :
                              config.enabled_doctypes[i] = EffectiveDoctype(given, cur_frm),
                    !.hasDocname = EffectiveDocname(given, cur_frm) # ""]
           res == wrapped_on_success(uploaderWrappers, u, converting)
       IN  /\ lastUpload' = res.up
           /\ converting' = res.converting
    /\ UNCHANGED << now, config, frmDoc, reloading, pickerVars, obsVars,
                    cur_frm, upload_intercepted, uploaderWrappers,
                    urlArg, urlResult, cfgVars, linkVars >>

\* The response to a convert_file_to_smart_link call: the callback with a
\* message ("converted") or without one ("empty"), or the error handler, which
\* goes on to the on_success its wrapper replaced
convert_response(m, outcome) ==
    /\ BagIn(m, converting)
    /\ LET rest == converting (-) SetToBag({m})
           res == IF outcome = "error"
                  THEN wrapped_on_success(m.depth - 1,
                                          [m.up EXCEPT !.phase = "failed"], rest)
                  ELSE [up |-> [m.up EXCEPT !.phase = outcome], converting |-> rest]
           reload == outcome = "converted" /\ cur_frm # "none"
       IN  /\ lastUpload' = [res.up EXCEPT !.frmAtResponse = cur_frm,
                                           !.reloaded = reload]
           /\ converting' = res.converting
           /\ reloading' = IF reload THEN reloading \cup {cur_frm} ELSE reloading
    /\ UNCHANGED << now, config, frmDoc, pickerVars, obsVars,
                    cur_frm, upload_intercepted, uploaderWrappers,
                    urlArg, urlResult, cfgVars, linkVars >>

InterceptLayers_NoGuard(intercepted, layers) == layers + 1

\* smart_links.intercept_file_upload(): the wrapper classes on FileUploader
\* after the call
InterceptLayers(intercepted, layers) == IF intercepted THEN layers ELSE layers + 1

(***************************************************************************)
(* load_config, the refresh handlers it registers, check_current_form      *)
(***************************************************************************)
LoggedIn_Always(user) == TRUE

\* frappe.session && frappe.session.user && frappe.session.user !== 'Guest'
LoggedIn(user) == user # "none" /\ user # "Guest"

\* smart_links.load_config(callback); hasCallback: a callback was passed (the
\* page-load call passes check_current_form, the call after a disconnect
\* passes none)
load_config(hasCallback) ==
    /\ loadLog.calls < MaxLoads
    /\ loadLog' = [loadLog EXCEPT !.calls = @ + 1]
    /\ configCalls' = IF LoggedIn(session_user)
                      THEN configCalls (+) SetToBag({[callback |-> hasCallback]})
                      ELSE configCalls
    /\ UNCHANGED << now, config, frmDoc, reloading, pickerVars, obsVars,
                    uploadVars, session_user, config_loaded, registered_doctypes,
                    formOn, lastRefresh, linkVars >>

RegisterSkip_Never(reg, d) == FALSE

\* register_doctype_handler returns early: if (registered_doctypes[doctype])
RegisterSkip(reg, d) == d \in reg

\* config.enabled_doctypes.forEach(register_doctype_handler) on the registry
\* [reg: the doctypes flagged, on: frappe.ui.form.on calls per doctype]
RECURSIVE RegisterAll(_, _)
RegisterAll(r, doctypes) ==
    IF doctypes = << >> THEN r
    ELSE LET d == Head(doctypes)
         IN  RegisterAll(IF RegisterSkip(r.reg, d) THEN r
                         ELSE [reg |-> r.reg \cup {d},
                               on |-> [r.on EXCEPT ![d] = @ + 1]],
                         Tail(doctypes))

\* on_form_refresh(frm) called n times in a row
RECURSIVE RunHandlers(_, _, _, _, _)
RunHandlers(st, f, cfg, isLoaded, n) ==
    IF n = 0 THEN st
    ELSE RunHandlers(IF RefreshGuards(f, cfg, isLoaded) THEN Render(st, f) ELSE st,
                     f, cfg, isLoaded, n - 1)

\* what lastRefresh records of n on_form_refresh(f) calls
RefreshLog(kind, f, cfg, isLoaded, n) ==
    [kind |-> kind, frm |-> f, handlerRuns |-> n,
     rendered |-> IF RefreshGuards(f, cfg, isLoaded) THEN n ELSE 0,
     wasLoaded |-> isLoaded, wasEnabled |-> ~cfg.isnull /\ cfg.enabled,
     isNew |-> frmDoc[f].is_new, hasDocname |-> frmDoc[f].docname # "",
     doctypeEnabled |-> ~cfg.isnull /\ Includes(cfg.enabled_doctypes, Doctype(f))]

\* check_current_form passes its early returns and finds the route of a form
\* of an enabled doctype; the route is that of cur_frm
OnEnabledForm(cfg, isLoaded) ==
    /\ isLoaded /\ ~cfg.isnull /\ cfg.enabled
    /\ cur_frm # "none"
    /\ frmDoc[cur_frm].docname # ""
    /\ Includes(cfg.enabled_doctypes, Doctype(cur_frm))

\* smart_links.check_current_form() on the state [ps: picker, os: observer,
\* log: lastRefresh]
check_current_form(st, cfg, isLoaded) ==
    IF ~OnEnabledForm(cfg, isLoaded) THEN st
    ELSE [ps |-> IF cfg.is_connected
                 THEN frappe_call(load_picker_api(st.ps, "preload", "-", FALSE),
                                  "preload_cfg", "-")
                 ELSE st.ps,
          os |-> RunHandlers(st.os, cur_frm, cfg, isLoaded, 1),
          log |-> RefreshLog("check", cur_frm, cfg, isLoaded, 1)]

\* The callback of load_config's get_config call, r.message being c (NoConfig:
\* no message, or the error handler ran)
get_config_response(m, c) ==
    /\ BagIn(m, configCalls)
    /\ configCalls' = configCalls (-) SetToBag({m})
    /\ IF c.isnull
       THEN UNCHANGED << config, config_loaded, registered_doctypes, formOn,
                         upload_intercepted, uploaderWrappers, loadLog,
                         lastRefresh, pickerVars, obsVars, reloading >>
       ELSE LET r == IF c.enabled
                     THEN RegisterAll([reg |-> registered_doctypes, on |-> formOn],
                                      c.enabled_doctypes)
                     ELSE [reg |-> registered_doctypes, on |-> formOn]
                st == [ps |-> PS, os |-> OS, log |-> lastRefresh]
                res == IF m.callback THEN check_current_form(st, c, TRUE) ELSE st
            IN  /\ config' = c
                /\ config_loaded' = TRUE
                /\ registered_doctypes' = r.reg
                /\ formOn' = r.on
                /\ uploaderWrappers' =
                      InterceptLayers(upload_intercepted, uploaderWrappers)
                /\ upload_intercepted' = TRUE
                /\ loadLog' = IF m.callback
                              THEN [loadLog EXCEPT !.callbacks = @ + 1] ELSE loadLog
                /\ SetPS(res.ps)
                /\ SetOS(res.os)
                /\ lastRefresh' = res.log
                /\ authFail' = authFail
    /\ UNCHANGED << now, frmDoc, cur_frm, converting, lastUpload, urlArg,
                    urlResult, session_user, linkVars >>

\* Frappe shows the form f and makes it cur_frm
form_shown(f) ==
    /\ cur_frm # f
    /\ cur_frm' = f
    /\ UNCHANGED << now, config, frmDoc, reloading, pickerVars, obsVars,
                    upload_intercepted, uploaderWrappers, converting,
                    lastUpload, urlArg, urlResult, cfgVars, linkVars >>

\* frm.reload_doc() completes: the document of the form is the server's now,
\* and Frappe refreshes the form, which runs the refresh handlers
reload_done(f) ==
    /\ f \in reloading
    /\ reloading' = reloading \ {f}
    /\ frmDoc' = [frmDoc EXCEPT ![f].smart_links = server[f]]
    /\ SetOS(RunHandlers([OS EXCEPT !.links[f] = server[f]], f, config,
                         config_loaded, formOn[Doctype(f)]))
    /\ UNCHANGED << now, config, pickerVars, uploadVars, cfgVars, linkVars >>

InitUpload ==
    /\ now = StartTime
    /\ config \in {c \in Configs : ~c.isnull /\ c.is_connected}
    /\ frmDoc = [f \in Forms |-> IF f = "f1" THEN SavedDoc ELSE NewDoc]
    /\ reloading = {}
    /\ InitPickerVars
    /\ dom = [f \in Forms |-> FullSidebar]
    /\ observers = [f \in Forms |-> IF f = "f1" THEN 1 ELSE 0]
    /\ attachmentObserver = "f1"
    /\ timers = {}
    /\ reRenderTimeout = NoTimer
    /\ lastRendered = "f1"
    /\ burst = NoBurst
    /\ InitUploadVars
    /\ InitLoaded
    /\ session_user = "alice"
    /\ configCalls = SetToBag({[callback |-> FALSE]})

NextUpload ==
    \/ \E d \in FileDocs, t \in OptsDoctypes, n \in OptsDocnames, o \in BOOLEAN :
          on_success(d, "r1", t, n, o)
    \/ \E m \in BagToSet(converting), o \in {"converted", "empty", "error"} :
          convert_response(m, o)
    \/ \E m \in BagToSet(configCalls), c \in Configs :
          ~c.isnull /\ get_config_response(m, c)
    \/ \E f \in Forms : form_shown(f)
    \/ \E f \in Forms : reload_done(f)

SpecUpload == InitUpload /\ [][NextUpload]_vars

(***************************************************************************)
(* The page: load_config at page load and after a disconnect, page         *)
(* changes, form refreshes                                                 *)
(***************************************************************************)
\* the configurations get_config answers with
LoadedConfigs ==
    {c \in Configs : ~c.isnull} \cup
    { [isnull |-> FALSE, enabled |-> FALSE, is_connected |-> FALSE,
       enabled_doctypes |-> << "Task" >>],
      [isnull |-> FALSE, enabled |-> TRUE, is_connected |-> FALSE,
       enabled_doctypes |-> << "Note", "Note" >>] }

\* the page-change handler's setTimeout(check_current_form, 300) runs; it is
\* set only if smart_links.loaded
page_change_check ==
    /\ config_loaded
    /\ Len(cbs) < MaxLoads
    /\ lastRefresh.kind # "check" \/ OnEnabledForm(config, config_loaded)
    /\ LET st == [ps |-> PS, os |-> OS,
                  log |-> [NoRefresh EXCEPT !.kind = "check"]]
           res == check_current_form(st, config, config_loaded)
       IN  /\ SetPS(res.ps)
           /\ SetOS(res.os)
           /\ lastRefresh' = res.log
    /\ UNCHANGED << now, config, frmDoc, authFail, uploadVars, session_user,
                    config_loaded, registered_doctypes, formOn, configCalls,
                    loadLog, linkVars >>

\* Frappe triggers the refresh event of form f: each handler that
\* register_doctype_handler gave frappe.ui.form.on for its doctype runs
form_refresh(f) ==
    /\ LET n == formOn[Doctype(f)]
       IN  /\ SetOS(RunHandlers(OS, f, config, config_loaded, n))
           /\ lastRefresh' = RefreshLog("refresh", f, config, config_loaded, n)
    /\ lastRefresh' # lastRefresh \/ obsVars' # obsVars
    /\ UNCHANGED << now, config, frmDoc, reloading, pickerVars, uploadVars,
                    session_user, config_loaded, registered_doctypes, formOn,
                    configCalls, loadLog, linkVars >>

DocStates ==
    { [docname |-> "NOTE-1", is_new |-> FALSE, smart_links |-> << "g1", "g2" >>],
      [docname |-> "new-note-1", is_new |-> TRUE, smart_links |-> << >>],
      [docname |-> "", is_new |-> FALSE, smart_links |-> << >>] }

\* the page before load_config has run
InitPage ==
    /\ now = StartTime
    /\ config = NoConfig
    /\ frmDoc \in {d \in [Forms -> DocStates \cup {SavedDoc}] :
                       d["f1"] = SavedDoc /\ d["f2"] \in DocStates}
    /\ reloading = {}
    /\ InitPickerVars
    /\ dom = [f \in Forms |-> FullSidebar]
    /\ observers = [f \in Forms |-> 0]
    /\ attachmentObserver = "none"
    /\ timers = {}
    /\ reRenderTimeout = NoTimer
    /\ lastRendered = "none"
    /\ burst = NoBurst
    /\ InitUploadVars
    /\ InitLoaded
    /\ session_user \in {"none", "Guest", "alice"}
    /\ configCalls = EmptyBag

NextConfig ==
    \/ \E b \in BOOLEAN : load_config(b)
    \/ \E m \in BagToSet(configCalls), c \in LoadedConfigs \cup {NoConfig} :
          get_config_response(m, c)
    \/ \E f \in Forms : form_shown(f)
    \/ page_change_check
    \/ \E f \in Forms : form_refresh(f)

SpecConfig == InitPage /\ [][NextConfig]_vars

(***************************************************************************)
(* The operations on the links of a document                               *)
(***************************************************************************)
LinkCall(kind, f, id) == [kind |-> kind, frm |-> f, id |-> id, detached |-> FALSE]

\* what the server does to the link records on add_link and remove_link
AddLink(links, id) ==
    IF \E i \in DOMAIN links : links[i] = id THEN links ELSE Append(links, id)

DropLink(e, id) == e # id

RemoveLink(links, id) ==
    LET keep(e) == DropLink(e, id) IN SelectSeq(links, keep)

\* The remove button of the row of link id on form f is clicked and the
\* confirm dialog is answered yes
remove_click(f, id) ==
    /\ \E i \in DOMAIN dom[f].children : dom[f].children[i] = id
    /\ LinkCall("remove", f, id) \notin linkCalls
    /\ Cardinality(linkCalls) < MaxLinkCalls
    /\ linkCalls' = linkCalls \cup {LinkCall("remove", f, id)}
    /\ UNCHANGED << now, config, frmDoc, reloading, pickerVars, dom, observers,
                    attachmentObserver, timers, reRenderTimeout, lastRendered,
                    burst, uploadVars, cfgVars, linkVars >>

\* a callback that also takes the entry out of frm.doc.smart_links
RemoveHandlerDoc_Splice(links, id) == RemoveLink(links, id)

\* frm.doc.smart_links after the callback of the remove handler: as before
RemoveHandlerDoc(links, id) == links

\* The response to a remove_link call of a row's remove button: the callback
\* runs $row.remove(), which changes the section only if the row is still in
\* it, and the observer of the section gets the mutation record
remove_response(m, ok) ==
    /\ m \in linkCalls /\ m.kind = "remove"
    /\ LET f == m.frm
           inDom == ~m.detached /\ \E i \in DOMAIN dom[f].children :
                                       dom[f].children[i] = m.id
           keep(e) == DropLink(e, m.id)
           doc == RemoveHandlerDoc(frmDoc[f].smart_links, m.id)
           st0 == [OS EXCEPT !.calls = @ \ {m}, !.links[f] = doc]
           st1 == [st0 EXCEPT !.dom[f].children = SelectSeq(@, keep)]
       IN  IF ok
           THEN /\ SetOS(IF ~inDom THEN st0
                         ELSE IF observers[f] > 0 THEN observer_callback(st1, f)
                         ELSE st1)
                /\ frmDoc' = [frmDoc EXCEPT ![f].smart_links = doc]
                /\ server' = [server EXCEPT ![f] = RemoveLink(@, m.id)]
                /\ removed' = removed \cup {[frm |-> f, id |-> m.id]}
           ELSE /\ SetOS([OS EXCEPT !.calls = @ \ {m}])
                /\ UNCHANGED << frmDoc, server, removed >>
    /\ UNCHANGED << now, config, reloading, pickerVars, uploadVars, cfgVars >>

\* smart_links.add_link(frm, url, input), and the primary action of
\* show_url_dialog: an add_link request for the file id
add_link(f, id) ==
    /\ frmDoc[f].docname # ""
    /\ LinkCall("add", f, id) \notin linkCalls
    /\ Cardinality(linkCalls) < MaxLinkCalls
    /\ linkCalls' = linkCalls \cup {LinkCall("add", f, id)}
    /\ UNCHANGED << now, config, frmDoc, reloading, pickerVars, dom, observers,
                    attachmentObserver, timers, reRenderTimeout, lastRendered,
                    burst, uploadVars, cfgVars, linkVars >>

\* smart_links.refresh_file_names(frm, widget)
refresh_file_names(f) ==
    /\ frmDoc[f].docname # ""
    /\ LinkCall("names", f, "-") \notin linkCalls
    /\ Cardinality(linkCalls) < MaxLinkCalls
    /\ linkCalls' = linkCalls \cup {LinkCall("names", f, "-")}
    /\ UNCHANGED << now, config, frmDoc, reloading, pickerVars, dom, observers,
                    attachmentObserver, timers, reRenderTimeout, lastRendered,
                    burst, uploadVars, cfgVars, linkVars >>

\* The response to an add_link or refresh_file_names call: with a message the
\* callback calls frm.reload_doc(); without one, or on an error, nothing
link_response(m, hasMessage) ==
    /\ m \in linkCalls /\ m.kind \in {"add", "names"}
    /\ linkCalls' = linkCalls \ {m}
    /\ reloading' = IF hasMessage THEN reloading \cup {m.frm} ELSE reloading
    /\ server' = IF hasMessage /\ m.kind = "add"
                 THEN [server EXCEPT ![m.frm] = AddLink(@, m.id)] ELSE server
    /\ removed' = IF hasMessage /\ m.kind = "add"
                  THEN removed \ {[frm |-> m.frm, id |-> m.id]} ELSE removed
    /\ UNCHANGED << now, config, frmDoc, pickerVars, dom, observers,
                    attachmentObserver, timers, reRenderTimeout, lastRendered,
                    burst, uploadVars, cfgVars >>

\* the link records the document of f1 starts with
ServerLists == {<< "g1" >>, << "g1", "g2" >>}

\* an uploaded File document whose URL is a Google Drive URL
DriveDoc == [isnull |-> FALSE, file_url |-> Str("drive.google.com/1"), name |-> "F1"]

\* A page with the form f1 of an enabled doctype shown, its Google Picker open
\* (the state show_file_browser("f1") and the script load lead to), the chips
\* not rendered yet
InitLinks ==
    /\ now = StartTime
    /\ config \in {c \in Configs : ~c.isnull /\ c.is_connected}
    /\ frmDoc \in {d \in [Forms -> {NewDoc} \cup
                                   {[SavedDoc EXCEPT !.smart_links = l] :
                                       l \in ServerLists}] :
                       d["f1"].docname = "TASK-1" /\ d["f2"] = NewDoc}
    /\ reloading = {}
    /\ picker_api_loaded = TRUE
    /\ picker_api_loading = FALSE
    /\ pickerLoadPromise = 1
    /\ scripts = << "resolved" >>
    /\ cbs = << [NewCb("show", "f1", FALSE, 1, "starter") EXCEPT !.invoked = 1] >>
    /\ picker_config_cached = NoPickerConfig
    /\ picker_config_timestamp = 0
    /\ net = EmptyBag
    /\ pickers = {"f1"}
    /\ lastPicker = [src |-> "fresh", old |-> FALSE, age |-> 0]
    /\ opened = 1
    /\ authFail = NoAuthFail
    /\ dom = [f \in Forms |-> FullSidebar]
    /\ observers = [f \in Forms |-> 0]
    /\ attachmentObserver = "none"
    /\ timers = {}
    /\ reRenderTimeout = NoTimer
    /\ lastRendered = "none"
    /\ burst = NoBurst
    /\ cur_frm = "f1"
    /\ upload_intercepted = TRUE
    /\ uploaderWrappers = 1
    /\ converting = EmptyBag
    /\ lastUpload = NoUpload
    /\ urlArg = Undefined
    /\ urlResult = "unset"
    /\ InitLoaded
    /\ session_user = "alice"
    /\ configCalls = EmptyBag

\* Every client operation that submits link data, with the responses of the
\* server and the reloads they ask for
NextLinks ==
    \/ \E f \in Forms : on_form_refresh(f)
    \/ \E f \in Forms, id \in FileIds : remove_click(f, id)
    \/ \E m \in linkCalls, ok \in BOOLEAN : remove_response(m, ok)
    \/ \E id \in FileIds : add_link("f1", id)
    \/ refresh_file_names("f1")
    \/ \E m \in linkCalls, b \in BOOLEAN : link_response(m, b)
    \/ \E b \in BOOLEAN : picker_callback("f1", b)
    \/ \E m \in BagToSet(net), o \in BatchOutcomes : batch_response(m, o)
    \/ converting = EmptyBag /\ on_success(DriveDoc, "r1", "", "", FALSE)
    \/ \E m \in BagToSet(converting), o \in {"converted", "empty", "error"} :
          convert_response(m, o)
    \/ \E f \in Forms : reload_done(f)

SpecLinks == InitLinks /\ [][NextLinks]_vars

\* The remove button of a row and the add of a link, with the mutation
\* observer of the attachments section and its debounce timer running
NextRemove ==
    \/ \E f \in Forms : on_form_refresh(f)
    \/ \E t \in timers : timer_fire(t)
    \/ ObsTickStep
    \/ \E id \in FileIds : remove_click("f1", id)
    \/ \E m \in linkCalls, ok \in BOOLEAN : remove_response(m, ok)
    \/ \E id \in FileIds : add_link("f1", id)
    \/ \E m \in linkCalls, b \in BOOLEAN : link_response(m, b)
    \/ \E f \in Forms : reload_done(f)

SpecRemove == InitLinks /\ [][NextRemove]_vars

\* The handlers of the picker, with at most n load_picker_api calls and n
\* pickers built
PickerHandlers(n) ==
    \/ Len(cbs) < n /\ preload_picker_api
    \/ \E m \in BagToSet(net), b \in BOOLEAN : preload_response(m, b)
    \/ \E l \in DOMAIN scripts : script_onload(l)
    \/ \E l \in DOMAIN scripts : gapi_loaded(l)
    \/ \E l \in DOMAIN scripts : script_onerror(l)
    \/ \E f \in Forms :
          /\ opened < n
          /\ OpensImmediately \/ Len(cbs) < n
          /\ show_file_browser(f)
    \/ \E m \in BagToSet(net), o \in {"message", "empty", "error"} : fetch_response(m, o)
    \/ \E f \in Forms, b \in BOOLEAN : picker_callback(f, b)
    \/ \E m \in BagToSet(net), o \in BatchOutcomes : batch_response(m, o)

\* The script loader: no time passes
NextLoader == PickerHandlers(MaxCalls)

SpecLoader == InitPicker /\ [][NextLoader]_vars

\* The picker config cache: the handlers and the clock
NextPicker ==
    \/ PickerHandlers(MaxPickerCalls)
    \/ PickerTickStep

SpecPicker == InitPicker /\ [][NextPicker]_vars

(***************************************************************************)
(* Claims about the picker config cache (SpecPicker)                       *)
(***************************************************************************)

\* C1: whenever a picker is opened with the cached picker config, that config
\* is less than 50 minutes old at the moment the picker is opened.
C1_CachedConfigFresh ==
    lastPicker.src = "cached" => lastPicker.age < cacheMaxAge

\* C2: after an AuthenticationError of the batch call, the next
\* show_file_browser does not open the picker from the cache with a config the
\* server issued before the failure; it fetches a fresh one.
C2_NextShowFetchesFresh ==
    authFail.failed => authFail.first \in {"none", "fetch"}

(***************************************************************************)
(* Claims about the script loader (SpecLoader)                             *)
(***************************************************************************)
InFlight == {l \in DOMAIN scripts : scripts[l] \in {"fetching", "gapi"}}

\* C3: at most one script load is in flight at any time; a load_picker_api
\* call made while picker_api_loading is true appends no script element and
\* waits on the existing promise; once picker_api_loaded is true no call
\* appends a script element.
C3_LoaderMemoized ==
    /\ [](Cardinality(InFlight) <= 1)
    /\ [][ /\ picker_api_loaded => scripts' = scripts
           /\ (picker_api_loading /\ Len(cbs') > Len(cbs)) =>
                /\ Len(scripts') = Len(scripts)
                /\ cbs'[Len(cbs')].role = "waiter"
                /\ cbs'[Len(cbs')].load = pickerLoadPromise ]_vars

C3_Witness ==
    /\ picker_api_loaded
    /\ \E i, j \in DOMAIN cbs : cbs[i].role = "waiter" /\ cbs[j].role = "immediate"

\* C4: every callback given to load_picker_api is invoked at most once and
\* only when picker_api_loaded is true; a callback given after the load
\* completed has been invoked once, and once a script load has succeeded the
\* callback of the call that started it and those of the calls that waited on
\* it have each been invoked exactly once.
C4_CallbacksOnce ==
    \A i \in DOMAIN cbs :
        /\ cbs[i].invoked <= 1
        /\ cbs[i].invoked = 1 => picker_api_loaded
        /\ cbs[i].role = "immediate" => cbs[i].invoked = 1
        /\ (cbs[i].load # 0 /\ scripts[cbs[i].load] = "resolved") => cbs[i].invoked = 1

C4_Witness ==
    \E i, j, k \in DOMAIN cbs :
        /\ cbs[i].role = "starter" /\ cbs[i].invoked = 1
        /\ cbs[j].role = "waiter" /\ cbs[j].load = cbs[i].load /\ cbs[j].invoked = 1
        /\ cbs[k].role = "immediate" /\ cbs[k].invoked = 1

LastScriptFailed == scripts # << >> /\ scripts[Len(scripts)] = "rejected"

\* C5: when the picker script fails to load, no callback waiting on that load
\* is invoked, picker_api_loaded stays false and picker_api_loading is reset to
\* false, and a later load_picker_api call starts a new script load instead of
\* waiting on the failed promise.
C5_FailedLoad ==
    /\ [](\A i \in DOMAIN cbs :
            (cbs[i].load # 0 /\ scripts[cbs[i].load] = "rejected") => cbs[i].invoked = 0)
    /\ [](LastScriptFailed => ~picker_api_loaded /\ ~picker_api_loading)
    /\ [][ (LastScriptFailed /\ Len(cbs') > Len(cbs)) =>
                /\ scripts' = Append(scripts, "fetching")
                /\ picker_api_loading'
                /\ cbs'[Len(cbs')].role = "starter"
                /\ cbs'[Len(cbs')].load = Len(scripts') ]_vars

C5_Witness ==
    /\ Len(scripts) >= 2
    /\ scripts[1] = "rejected"
    /\ \E i, j \in DOMAIN cbs :
         /\ cbs[i].load = 1 /\ cbs[i].role = "waiter" /\ cbs[i].invoked = 0
         /\ cbs[j].load = 2 /\ cbs[j].role = "starter"

(***************************************************************************)
(* Claims about the attachment observer (SpecObserver)                     *)
(***************************************************************************)

\* C6: at most one re-render timer is pending at any time; a qualifying
\* mutation (one on which the observer callback schedules a re-render) and a
\* call of setup_attachment_observer each cancel the pending timer, so the
\* only pending timer is the one set by the latest qualifying mutation since
\* the last setup, due 150 ms after it; and a burst of qualifying mutations
\* ends in one timer-driven add_integrated_chips call, 150 ms after the last
\* mutation of the burst.
C6_Debounced ==
    /\ Cardinality(timers) <= 1
    /\ burst.last = 0 => timers = {}
    /\ burst.last # 0 =>
         /\ timers = {reRenderTimeout}
         /\ reRenderTimeout.due = burst.last + debounce
         /\ now <= reRenderTimeout.due
    /\ burst.outcome # "stray"

C6_Witness ==
    /\ burst.outcome = "fired"
    /\ burst.several
    /\ burst.last = 0

ConnectedObservers == {f \in Forms : observers[f] > 0}

\* C7: at most one attachment MutationObserver is connected at any time, it is
\* the most recently created one, and it and every pending re-render timer
\* belong to the form whose chips were rendered most recently.
C7_SingleObserver ==
    /\ \A f \in Forms : observers[f] <= 1
    /\ Cardinality(ConnectedObservers) <= 1
    /\ \A f \in ConnectedObservers : f = attachmentObserver /\ f = lastRendered
    /\ \A t \in timers : t.frm = lastRendered

C7_Witness ==
    /\ lastRendered = "f2"
    /\ observers["f2"] = 1
    /\ Count(dom["f1"].children, IsGdriveRow) > 0
    /\ \E t \in timers : t.frm = "f2"

\* C8: is_gdrive_url(url) returns true exactly when url is a non-empty string
\* that contains 'drive.google.com' or 'docs.google.com', and false for every
\* other input (empty string, null, undefined, non-string values).
C8_GdriveUrl ==
    urlResult # "unset" => urlResult = BoolText(IsDriveUrlText(urlArg))

\* is_gdrive_url returned true for a URL that has the host name in the middle
C8_Witness ==
    /\ urlResult = "true"
    /\ urlArg = Str("https://docs.google.com/file/d/1")

\* the uploads under way and the one handled last
Uploads == {lastUpload} \cup {m.up : m \in BagToSet(converting)}

\* the upload is one the wrapper is to leave alone
NotIntercepted(u) == ~u.drive \/ ~u.doctypeEnabled \/ ~u.hasDocname

\* C9: for an upload whose file URL is not a Google Drive URL, or whose
\* doctype is not in enabled_doctypes, or which has no docname, the wrapped
\* on_success issues no convert_file_to_smart_link call and invokes the
\* caller's original on_success exactly once (when one was supplied) with the
\* same file_doc and response.
C9_PassThrough ==
    \A u \in Uploads :
        (u.phase # "none" /\ NotIntercepted(u)) =>
            /\ u.phase = "passed"
            /\ u.convert = 0
            /\ u.original = IF u.hasOriginal THEN 1 ELSE 0
            /\ u.hasOriginal =>
                  u.passed = [file_doc |-> u.file_doc, response |-> u.response]

\* a Drive URL uploaded to a document of a doctype that is not enabled went
\* to the caller's on_success
C9_Witness ==
    /\ lastUpload.phase = "passed"
    /\ lastUpload.drive /\ lastUpload.hasDocname /\ ~lastUpload.doctypeEnabled
    /\ lastUpload.hasOriginal /\ lastUpload.original = 1

\* the upload is one the wrapper is to convert
Intercepted(u) == u.drive /\ u.doctypeEnabled /\ u.hasDocname

\* C10: for an intercepted upload (Drive URL, enabled doctype, docname
\* present) exactly one convert_file_to_smart_link call is issued and the
\* caller's original on_success is invoked at most once: never when the
\* conversion succeeds (the form that is then current is reloaded instead)
\* and exactly once, if one was supplied, when the conversion call fails.
C10_Intercepted ==
    \A u \in Uploads :
        Intercepted(u) =>
            /\ u.phase \in {"sent", "converted", "empty", "failed"}
            /\ u.convert = 1
            /\ u.original <= 1
            /\ u.phase \in {"sent", "empty"} => u.original = 0
            /\ u.phase = "converted" =>
                  /\ u.original = 0
                  /\ u.frmAtResponse # "none" => u.reloaded
            /\ u.phase = "failed" =>
                  /\ u.original = IF u.hasOriginal THEN 1 ELSE 0
                  /\ u.hasOriginal =>
                        u.passed = [file_doc |-> u.file_doc, response |-> u.response]

\* the conversion of an intercepted upload failed and the caller's on_success
\* ran, while the conversion of another one is still outstanding
C10_Witness ==
    /\ Intercepted(lastUpload)
    /\ lastUpload.phase = "failed"
    /\ lastUpload.hasOriginal /\ lastUpload.original = 1
    /\ converting # EmptyBag

\* C11: load_config issues no get_config request when there is no session
\* user or the user is 'Guest'; then smart_links.loaded stays false,
\* smart_links.config stays as it was (null), no doctype handler is registered,
\* the upload interceptor is not installed and the callback is not invoked.
C11_GuestLoadsNothing ==
    session_user \in {"none", "Guest"} =>
        /\ configCalls = EmptyBag
        /\ ~config_loaded
        /\ config = NoConfig
        /\ registered_doctypes = {}
        /\ \A d \in Doctypes : formOn[d] = 0
        /\ ~upload_intercepted /\ uploaderWrappers = 0
        /\ loadLog.callbacks = 0
        /\ lastRefresh.rendered = 0

\* load_config was called while the user is Guest
C11_Witness ==
    /\ session_user = "Guest"
    /\ loadLog.calls > 0

\* the row of link id is in the attachments section of form f
RowShown(f, id) == \E i \in DOMAIN dom[f].children : dom[f].children[i] = id

\* the link id is in the list l
HasLink(l, id) == \E i \in DOMAIN l : l[i] = id

\* C12: no client operation (add, remove, convert, batch link, refresh
\* names, render) writes frm.doc.smart_links: the locally held list of a form
\* changes only in the step that completes a reload of its document, and then
\* to the list the server holds.
C12_LinksWrittenOnlyByReload ==
    [][\A f \in Forms :
          frmDoc'[f].smart_links # frmDoc[f].smart_links =>
              /\ f \in reloading /\ f \notin reloading'
              /\ frmDoc'[f].smart_links = server[f]]_vars

\* a remove_link call succeeded and the server dropped the link, while the
\* list held by the form still has it
C12_Witness ==
    \E r \in removed :
        /\ HasLink(frmDoc[r.frm].smart_links, r.id)
        /\ ~HasLink(server[r.frm], r.id)
        /\ r.frm \notin reloading

\* C13: after a link is removed with the remove button of its row and the
\* remove_link call succeeded, the row of that link is not in the attachments
\* section, unless the link was added again.
C13_RemovedRowStaysGone ==
    \A r \in removed : ~RowShown(r.frm, r.id)

\* the section has an element add_integrated_chips inserts after: a local
\* attachment row or .attachments-actions
HasInsertPoint(f) ==
    /\ dom[f].sidebar /\ dom[f].section
    /\ \E i \in DOMAIN dom[f].children :
          IsLocalRow(dom[f].children[i]) \/ IsActions(dom[f].children[i])

\* the children show the links: one gdrive row per entry in list order, all
\* behind the local rows, and one separator exactly when there are both local
\* rows and links
ShowsLinks(ch, links) ==
    /\ SelectSeq(ch, IsGdriveRow) = links
    /\ \A i, j \in DOMAIN ch : IsLocalRow(ch[i]) /\ IsGdriveRow(ch[j]) => i < j
    /\ Count(ch, IsSeparator) =
          IF Count(ch, IsLocalRow) > 0 /\ Len(links) > 0 THEN 1 ELSE 0

\* C14: add_integrated_chips is idempotent on the sidebar: whatever the
\* section holds, when it has an insert point a call leaves exactly one gdrive
\* row per entry of frm.doc.smart_links, in list order, behind all local rows,
\* with one separator exactly when there are local rows and links; a second
\* call for the same document leaves the same children.
C14_ChipsIdempotent ==
    \A f \in Forms :
        HasInsertPoint(f) =>
            LET once == add_integrated_chips(OS, f)
                twice == add_integrated_chips(once, f)
            IN  /\ ShowsLinks(once.dom[f].children, frmDoc[f].smart_links)
                /\ twice.dom[f].children = once.dom[f].children
                /\ Count(once.dom[f].children, IsLocalRow) =
                      Count(dom[f].children, IsLocalRow)

\* chips were rendered for a form that has links and a local attachment: its
\* section already holds the rows and the separator a further call must not
\* duplicate
C14_Witness ==
    \E f \in Forms :
        /\ lastRendered = f
        /\ Len(frmDoc[f].smart_links) > 1
        /\ Count(dom[f].children, IsLocalRow) > 0
        /\ Count(dom[f].children, IsSeparator) = 1
        /\ SelectSeq(dom[f].children, IsGdriveRow) = frmDoc[f].smart_links

\* C15: a re-render started by the mutation observer does not schedule
\* another one: the step in which a re-render timer fires and
\* add_integrated_chips runs sets no timer, and leaves none pending, so the
\* next re-render needs a DOM change from outside.
C15_ReRenderSchedulesNone ==
    [][\A t \in timers :
          timer_fire(t) => /\ timers' \subseteq timers \ {t}
                           /\ timers' = {}]_vars

\* a re-render timer fired and its add_integrated_chips took a stale
\* separator out of a section that has no insert point, so the links of the
\* document are still not shown
C15_Witness ==
    /\ burst.outcome = "fired"
    /\ lastRendered # "none"
    /\ timers = {}
    /\ Len(frmDoc[lastRendered].smart_links) > 0
    /\ dom[lastRendered].children = << >>

\* C16: on_form_refresh calls add_integrated_chips only when
\* smart_links.loaded is true, config.enabled is true, the form is not new and
\* it has a docname (every form of the model has a doctype).
C16_RefreshRendersSavedOnly ==
    lastRefresh.rendered > 0 =>
        /\ lastRefresh.wasLoaded
        /\ lastRefresh.wasEnabled
        /\ ~lastRefresh.isNew
        /\ lastRefresh.hasDocname

\* the refresh handler ran for a new document, with the configuration loaded
\* and enabled, and rendered nothing
C16_Witness ==
    /\ lastRefresh.kind = "refresh"
    /\ lastRefresh.handlerRuns > 0
    /\ lastRefresh.isNew /\ lastRefresh.hasDocname
    /\ lastRefresh.wasLoaded /\ lastRefresh.wasEnabled
    /\ lastRefresh.rendered = 0

\* C17: the refresh of a form whose doctype is not in the current
\* config.enabled_doctypes renders no chips, also after the configuration was
\* loaded again with another list.
C17_RendersEnabledDoctypesOnly ==
    lastRefresh.kind = "refresh" /\ ~lastRefresh.doctypeEnabled =>
        lastRefresh.rendered = 0

\* C18: frappe.ui.form.on is called at most once for each doctype, whatever
\* the number of load_config completions and the repetitions in
\* enabled_doctypes, so a form refresh runs on_form_refresh at most once.
C18_RegisteredOnce ==
    /\ \A d \in Doctypes : formOn[d] <= 1
    /\ \A d \in Doctypes : formOn[d] = 1 <=> d \in registered_doctypes
    /\ lastRefresh.kind = "refresh" => lastRefresh.handlerRuns <= 1

\* two configurations were loaded, the current one names a doctype twice, and
\* a form of that doctype was refreshed: its handler ran once
C18_Witness ==
    /\ ~config.isnull /\ config.enabled_doctypes = << "Note", "Note" >>
    /\ registered_doctypes = {"Task", "Note"}
    /\ lastRefresh.kind = "refresh" /\ lastRefresh.frm = "f2"
    /\ lastRefresh.handlerRuns = 1

====
